---- MODULE Spec2Model ----
(***************************************************************************)
(* BattleBuddy: the cohort-recommendation quiz (core/views.py cohort_quiz, *)
(* core/forms.py CohortQuizForm) and the cohort challenge test             *)
(* (core/forms.py ChallengeTestForm).                                       *)
(***************************************************************************)
EXTENDS Integers, Sequences, FiniteSets, TLC

VARIABLES
    quizData,           \* the cohort-quiz form as filled in by the browser: field -> value ("" = nothing selected)
    response,           \* the response to the last cohort_quiz request for quizData; NoResponse while the form is being filled in
    users,              \* table core_customuser
    cohortVisibility,   \* table core_cohortvisibility
    cohortQuizRows,     \* table core_cohortquiz
    bank,               \* ChallengeTestForm.CHALLENGE_QUESTIONS, the class attribute every form instance reads
    session,            \* the ChallengeTestForm instance built last: cohort, correct_answers, fields
    builds,             \* number of ChallengeTestForm instances built so far
    threads,            \* the request threads that are inside ChallengeTestForm.__init__ at the same time
    challengeData,      \* the body the browser posts to challenge_test: key -> value ("" = key not sent)
    testRequest,        \* the challenge_test request being handled or answered last: client, cohort, method
    phase,              \* where challenge_test is in that request: "idle", "NotBuilt", "Built" or "Graded"
    testResult,         \* what challenge_test worked out for that request: graded, result, errors
    presented,          \* the test the user was shown last: cohort and answer key of the user's last GET
    sessionUser,        \* id of the account the browser session is logged in as; 0 for nobody
    authResponse,       \* the response to the last account or administration request
    nextId,             \* the primary key the next row of core_customuser gets
    outbox              \* the messages handed to send_mail so far

quizVars == <<quizData, response>>
dbVars == <<users, cohortVisibility, cohortQuizRows>>
challengeVars == <<bank, session, builds, threads>>
testVars == <<challengeData, testRequest, phase, testResult, presented>>
authVars == <<sessionUser, authResponse, nextId>>
mailVars == <<outbox>>
vars == <<quizData, response, users, cohortVisibility, cohortQuizRows, bank, session, builds, threads,
          challengeData, testRequest, phase, testResult, presented, sessionUser, authResponse, nextId, outbox>>

(***************************************************************************)
(* CohortQuizForm (core/forms.py)                                          *)
(***************************************************************************)

\* The six ChoiceFields q1..q6, in declaration order.
QuizFields == <<"q1", "q2", "q3", "q4", "q5", "q6">>

QuizFieldSet == {QuizFields[i] : i \in 1..Len(QuizFields)}

\* CohortQuizForm.CHOICES: the values of the (value, label) pairs of each field.
CHOICES == [q \in QuizFieldSet |-> <<"Cloud", "Server", "Cyber">>]

\* What a request can carry for one field: a choice value, a value that is
\* no choice of the field, or nothing ("").
Submittable == {"Cloud", "Server", "Cyber", "Other", ""}

FieldErrorRequiredOnly(q, v) == IF v = "" THEN "required" ELSE ""

\* ChoiceField.clean for a required field: "" when the value is accepted.
FieldError(q, v) ==
    IF v = "" THEN "required"
    ELSE IF \A i \in 1..Len(CHOICES[q]) : CHOICES[q][i] # v THEN "invalid_choice"
    ELSE ""

\* form.errors: the fields that failed, with their error code.
FormErrors(data) ==
    [q \in {f \in QuizFieldSet : FieldError(f, data[f]) # ""} |-> FieldError(q, data[q])]

\* form.is_valid()
IsValid(data) == DOMAIN FormErrors(data) = {}

\* form.cleaned_data: the fields that passed validation.
CleanedData(data) ==
    [q \in {f \in QuizFieldSet : FieldError(f, data[f]) = ""} |-> data[q]]

(***************************************************************************)
(* cohort_quiz (core/views.py)                                             *)
(***************************************************************************)

\* sum(1 for answer in form.cleaned_data.values() if answer == tag)
Score(cleaned, tag) == Cardinality({q \in DOMAIN cleaned : cleaned[q] = tag})

MaxScoreFirstTwo(a, b, c) == IF a >= b THEN a ELSE b

\* max(score_cloud, score_server, score_cyber)
MaxScore(a, b, c) ==
    IF a >= b /\ a >= c THEN a ELSE IF b >= c THEN b ELSE c

SuggestionsDropTies(score_cloud, score_server, score_cyber) ==
    LET max_score == MaxScore(score_cloud, score_server, score_cyber)
    IN  IF score_cloud = max_score THEN <<"Cloud Application Development">>
        ELSE IF score_server = max_score THEN <<"Server & Cloud Applications">>
        ELSE <<"Cybersecurity Administration">>

\* The three appends guarded by "score == max_score".
Suggestions(score_cloud, score_server, score_cyber) ==
    LET max_score == MaxScore(score_cloud, score_server, score_cyber)
    IN  (IF score_cloud = max_score THEN <<"Cloud Application Development">> ELSE <<>>)
        \o (IF score_server = max_score THEN <<"Server & Cloud Applications">> ELSE <<>>)
        \o (IF score_cyber = max_score THEN <<"Cybersecurity Administration">> ELSE <<>>)

\* suggestion_message is assigned in no branch: the render call raises UnboundLocalError.
Unbound == "<UnboundLocalError>"

SuggestionMessageNoSerialComma(suggestions) ==
    IF Len(suggestions) = 1 THEN
        "Based on your answers, you should consider the " \o suggestions[1] \o " cohort."
    ELSE IF Len(suggestions) = 2 THEN
        "Based on your answers, you should consider the " \o suggestions[1]
            \o " and " \o suggestions[2] \o " cohorts."
    ELSE IF Len(suggestions) = 3 THEN
        "Based on your answers, you should consider the " \o suggestions[1]
            \o ", " \o suggestions[2] \o " and " \o suggestions[3] \o " cohorts."
    ELSE Unbound

\* The if/elif chain on len(suggestions).
SuggestionMessage(suggestions) ==
    IF Len(suggestions) = 1 THEN
        "Based on your answers, you should consider the " \o suggestions[1] \o " cohort."
    ELSE IF Len(suggestions) = 2 THEN
        "Based on your answers, you should consider the " \o suggestions[1]
            \o " and " \o suggestions[2] \o " cohorts."
    ELSE IF Len(suggestions) = 3 THEN
        "Based on your answers, you should consider the " \o suggestions[1]
            \o ", " \o suggestions[2] \o ", and " \o suggestions[3] \o " cohorts."
    ELSE Unbound

NoResponse == [template |-> "", context |-> <<>>]

\* render(request, "quiz/cohort_quiz.html", {"form": form})
QuizFormPage(errors) ==
    [template |-> "quiz/cohort_quiz.html", context |-> [errors |-> errors]]

\* render(request, "quiz/cohort_quiz_result.html", {...})
QuizResultPage(cleaned) ==
    LET score_cloud == Score(cleaned, "Cloud")
        score_server == Score(cleaned, "Server")
        score_cyber == Score(cleaned, "Cyber")
        suggestions == Suggestions(score_cloud, score_server, score_cyber)
    IN  [template |-> "quiz/cohort_quiz_result.html",
         context |-> [suggestion |-> SuggestionMessage(suggestions),
                      suggestions |-> suggestions,
                      score_cloud |-> score_cloud,
                      score_server |-> score_server,
                      score_cyber |-> score_cyber]]

CohortQuizResponseAcceptInvalid(method, data) ==
    IF method = "POST" THEN QuizResultPage(CleanedData(data))
    ELSE QuizFormPage(<<>>)

\* The body of cohort_quiz as a function of the request.
CohortQuizResponse(method, data) ==
    IF method = "POST" THEN
        IF IsValid(data) THEN QuizResultPage(CleanedData(data))
        ELSE QuizFormPage(FormErrors(data))
    ELSE QuizFormPage(<<>>)

CohortQuizStoring(method) ==
    /\ response' = CohortQuizResponse(method, quizData)
    /\ cohortQuizRows' =
         IF method = "POST" /\ IsValid(quizData)
         THEN cohortQuizRows \cup {[id |-> Cardinality(cohortQuizRows) + 1, answers |-> quizData]}
         ELSE cohortQuizRows
    /\ UNCHANGED <<quizData, users, cohortVisibility>>
    /\ UNCHANGED challengeVars
    /\ UNCHANGED testVars
    /\ UNCHANGED authVars
    /\ UNCHANGED mailVars

\* cohort_quiz(request): reads request.method and request.POST only.
CohortQuiz(method) ==
    /\ response' = CohortQuizResponse(method, quizData)
    /\ UNCHANGED <<quizData, users, cohortVisibility, cohortQuizRows>>
    /\ UNCHANGED challengeVars
    /\ UNCHANGED testVars
    /\ UNCHANGED authVars
    /\ UNCHANGED mailVars

\* The browser: the user selects (or clears, or forges) the value of one field
\* of the quiz form; the next request has no response yet.
SelectAnswer(q, v) ==
    /\ quizData[q] # v
    /\ quizData' = [quizData EXCEPT ![q] = v]
    /\ response' = NoResponse
    /\ UNCHANGED dbVars
    /\ UNCHANGED challengeVars
    /\ UNCHANGED testVars
    /\ UNCHANGED authVars
    /\ UNCHANGED mailVars

(***************************************************************************)
(* ChallengeTestForm (core/forms.py)                                       *)
(***************************************************************************)

\* The class attribute as written in the source: per cohort a list of
\* (q_id, question, options, correct_answer), options a list of (key, text).
CHALLENGE_QUESTIONS ==
    [cloud |->
       <<[q_id |-> "q1", question |-> "What is serverless computing?",
          options |-> << <<"A", "A cloud computing model">>, <<"B", "A type of database">>,
                         <<"C", "A security protocol">> >>,
          correct_answer |-> "A"],
         [q_id |-> "q2", question |-> "Which of these is a popular cloud provider?",
          options |-> << <<"A", "AWS">>, <<"B", "React">>, <<"C", "TensorFlow">> >>,
          correct_answer |-> "A"]>>,
     cybersecurity |->
       <<[q_id |-> "q1", question |-> "What does a firewall do?",
          options |-> << <<"A", "Prevents unauthorized access">>, <<"B", "Stores backup files">>,
                         <<"C", "Speeds up network traffic">> >>,
          correct_answer |-> "A"],
         [q_id |-> "q2", question |-> "Which is an example of multi-factor authentication?",
          options |-> << <<"A", "Password + SMS code">>, <<"B", "Username only">>,
                         <<"C", "Public WiFi login">> >>,
          correct_answer |-> "A"]>>,
     server |->
       <<[q_id |-> "q1", question |-> "What is a virtual machine?",
          options |-> << <<"A", "An emulation of a computer system">>, <<"B", "A programming language">>,
                         <<"C", "A type of network cable">> >>,
          correct_answer |-> "A"],
         [q_id |-> "q2", question |-> "Which tool is used for containerization?",
          options |-> << <<"A", "Docker">>, <<"B", "Photoshop">>, <<"C", "Microsoft Word">> >>,
          correct_answer |-> "A"]>>]

\* The cohort of a request URL: challenge-test/<str:cohort>/ accepts any string.
RequestableCohorts == DOMAIN CHALLENGE_QUESTIONS \cup {"nonexistent"}

\* Number of ChallengeTestForm instances the model builds one after the other.
MaxBuilds == 2

\* The bijections of 1..n.
Bijections(n) == {f \in [1..n -> 1..n] : \A i, j \in 1..n : f[i] = f[j] => i = j}

ShuffleOutcomesRelabel(options) ==
    {[i \in 1..Len(options) |-> <<options[i][1], options[f[i]][2]>>] : f \in Bijections(Len(options))}

ShuffleOutcomesRotations(options) ==
    {[i \in 1..Len(options) |-> options[((i + r) % Len(options)) + 1]] : r \in 1..Len(options)}

\* random.shuffle(options): the list holds the same (key, text) tuples in any order.
ShuffleOutcomes(options) ==
    {[i \in 1..Len(options) |-> options[f[i]]] : f \in Bijections(Len(options))}

QuestionsDefaultCohort(b, cohort) == IF cohort \in DOMAIN b THEN b[cohort] ELSE b["cloud"]

\* CHALLENGE_QUESTIONS.get(cohort, [])
Questions(b, cohort) == IF cohort \in DOMAIN b THEN b[cohort] ELSE <<>>

\* [...][0] on an empty list
IndexError == "<IndexError>"

NewCorrectAnswerFirstOption(options, correct_answer) == options[1][1]

\* [key for key, value in options if key == correct_answer][0]
NewCorrectAnswer(options, correct_answer) ==
    LET keys == SelectSeq([i \in 1..Len(options) |-> options[i][1]],
                          LAMBDA key : key = correct_answer)
    IN  IF keys = <<>> THEN IndexError ELSE keys[1]

\* forms.ChoiceField(label=question, choices=options, ...): the field keeps its own copy of the list.
ChoiceField(question, options) == [label |-> question, choices |-> options]

\* No form instance yet.
NoSession == [cohort |-> "", correct_answers |-> <<>>, fields |-> <<>>]

\* The instance __init__ leaves behind when the loop ran over `questions`
\* (the lists as they are after their shuffle).
FormInstance(cohort, questions) ==
    LET ids == {questions[k].q_id : k \in 1..Len(questions)}
        \* a later question with the same q_id overwrites the earlier entry
        last(q) == CHOOSE k \in 1..Len(questions) :
                       /\ questions[k].q_id = q
                       /\ \A m \in 1..Len(questions) : questions[m].q_id = q => m <= k
    IN  [cohort |-> cohort,
         correct_answers |->
             [q \in ids |-> NewCorrectAnswer(questions[last(q)].options,
                                             questions[last(q)].correct_answer)],
         fields |->
             [q \in ids |-> ChoiceField(questions[last(q)].question, questions[last(q)].options)]]

\* All results of shuffling, in place, the option list of every question.
ShuffledQuestions(questions) ==
    {[k \in 1..Len(questions) |-> [questions[k] EXCEPT !.options = o[k]]] :
        o \in {c \in [1..Len(questions) -> UNION {ShuffleOutcomes(questions[k].options) : k \in 1..Len(questions)}] :
                  \A k \in 1..Len(questions) : c[k] \in ShuffleOutcomes(questions[k].options)}}

\* ChallengeTestForm(cohort, ...): __init__ run from start to end by one request.
\* `options` is the list object stored in CHALLENGE_QUESTIONS, so the shuffle
\* reorders the class attribute itself.
Construct(cohort) ==
    \E shuffled \in ShuffledQuestions(Questions(bank, cohort)) :
        /\ session' = FormInstance(cohort, shuffled)
        /\ bank' = IF cohort \in DOMAIN bank THEN [bank EXCEPT ![cohort] = shuffled] ELSE bank

\* One ChallengeTestForm built by one request, counted.
Build(cohort) ==
    /\ builds < MaxBuilds
    /\ Construct(cohort)
    /\ builds' = builds + 1
    /\ UNCHANGED threads
    /\ UNCHANGED quizVars
    /\ UNCHANGED testVars
    /\ UNCHANGED authVars
    /\ UNCHANGED mailVars
    /\ UNCHANGED dbVars

(***************************************************************************)
(* challenge_test (views.py) and ChallengeTestForm.evaluate, one request   *)
(* at a time, the view taken statement by statement.                       *)
(***************************************************************************)

\* The keys a posted body can carry: the question ids and the token field of the page's form.
ChallengeKeys == {"q1", "q2", "csrfmiddlewaretoken"}

\* What the browser can send under a key: for a question the right option, a wrong one,
\* "D", which is no option of any question, or nothing.
ChallengeValues(key) == IF key = "csrfmiddlewaretoken" THEN {"", "token"} ELSE {"A", "B", "D", ""}

\* The browsers: the user who takes the test, and somebody else.
Clients == {"user", "other"}

\* The cohorts asked for in the URL: one of the bank and one that is not in it.
TestCohorts == {"cloud", "nonexistent"}

NoTestRequest == [client |-> "", cohort |-> "", method |-> ""]

NoTestResult == [graded |-> FALSE, result |-> <<>>, errors |-> <<>>]

NoPresented == [cohort |-> "", correct_answers |-> <<>>]

\* QueryDict.get / dict.get: the value under the key, None ("") when the key is absent.
Get(data, key) == IF key \in DOMAIN data THEN data[key] ELSE ""

\* `request.POST or None`: a QueryDict without keys is falsy, the form is then unbound.
IsBound(method, data) == method = "POST" /\ \E key \in DOMAIN data : data[key] # ""

ChallengeFieldErrorOptional(field, v) ==
    IF v = "" THEN ""
    ELSE IF \A n \in 1..Len(field.choices) : field.choices[n][1] # v THEN "invalid_choice"
    ELSE ""

\* ChoiceField.clean for one question: required, and the value must be one of its option keys.
ChallengeFieldError(field, v) ==
    IF v = "" THEN "required"
    ELSE IF \A n \in 1..Len(field.choices) : field.choices[n][1] # v THEN "invalid_choice"
    ELSE ""

\* form.errors of a bound form.
ChallengeErrors(form, data) ==
    LET bad == {q \in DOMAIN form.fields : ChallengeFieldError(form.fields[q], Get(data, q)) # ""}
    IN  [q \in bad |-> ChallengeFieldError(form.fields[q], Get(data, q))]

\* form.is_valid(): bound and without errors.
ChallengeIsValid(form, method, data) ==
    /\ IsBound(method, data)
    /\ DOMAIN ChallengeErrors(form, data) = {}

\* form.cleaned_data: the fields that passed, nothing for keys that are no field.
ChallengeCleanedData(form, data) ==
    [q \in DOMAIN form.fields \ DOMAIN ChallengeErrors(form, data) |-> data[q]]

EvaluateCountAnswered(correct_answers, cleaned_data) ==
    <<Cardinality({q \in DOMAIN correct_answers : Get(cleaned_data, q) # ""}),
      Cardinality(DOMAIN correct_answers)>>

EvaluateTotalOffByOne(correct_answers, cleaned_data) ==
    <<Cardinality({q \in DOMAIN correct_answers : Get(cleaned_data, q) = correct_answers[q]}),
      Cardinality(DOMAIN correct_answers) - 1>>

\* ChallengeTestForm.evaluate: (score, total).
Evaluate(correct_answers, cleaned_data) ==
    <<Cardinality({q \in DOMAIN correct_answers : Get(cleaned_data, q) = correct_answers[q]}),
      Cardinality(DOMAIN correct_answers)>>

ShouldGradeAnyRequest(form, method, data) == TRUE

\* The condition of the view's `if`: request.method == "POST" and form.is_valid().
ShouldGrade(form, method, data) == method = "POST" /\ ChallengeIsValid(form, method, data)

\* The browser fills in or clears one key of the body it will post.
SelectChallengeAnswer(key, v) ==
    /\ phase = "idle"
    /\ challengeData[key] # v
    /\ challengeData' = [challengeData EXCEPT ![key] = v]
    /\ testRequest' = NoTestRequest
    /\ testResult' = NoTestResult
    /\ UNCHANGED presented
    /\ UNCHANGED challengeVars
    /\ UNCHANGED quizVars
    /\ UNCHANGED dbVars
    /\ UNCHANGED authVars
    /\ UNCHANGED mailVars
    /\ UNCHANGED phase

\* A request for /challenge-test/<cohort>/ reaches the view; no form exists yet.
\* A GET carries no body: request.POST is empty.
TestReceive(client, cohort, method) ==
    /\ phase = "idle"
    /\ testRequest' = [client |-> client, cohort |-> cohort, method |-> method]
    /\ challengeData' = IF method = "GET" THEN [key \in ChallengeKeys |-> ""] ELSE challengeData
    /\ testResult' = NoTestResult
    /\ phase' = "NotBuilt"
    /\ UNCHANGED presented
    /\ UNCHANGED challengeVars
    /\ UNCHANGED quizVars
    /\ UNCHANGED dbVars
    /\ UNCHANGED authVars
    /\ UNCHANGED mailVars

\* form = ChallengeTestForm(cohort, request.POST or None); result = None
TestBuild ==
    /\ phase = "NotBuilt"
    /\ Construct(testRequest.cohort)
    /\ phase' = "Built"
    /\ UNCHANGED <<builds, threads>>
    /\ UNCHANGED <<challengeData, testRequest, testResult, presented>>
    /\ UNCHANGED quizVars
    /\ UNCHANGED dbVars
    /\ UNCHANGED authVars
    /\ UNCHANGED mailVars

TestGradeConsuming ==
    /\ phase = "Built"
    /\ ShouldGrade(session, testRequest.method, challengeData)
    /\ testResult' = [graded |-> TRUE,
                      result |-> Evaluate(session.correct_answers,
                                          ChallengeCleanedData(session, challengeData)),
                      errors |-> <<>>]
    /\ session' = [session EXCEPT !.correct_answers = <<>>]
    /\ phase' = "Graded"
    /\ UNCHANGED <<bank, builds, threads>>
    /\ UNCHANGED <<challengeData, testRequest, presented>>
    /\ UNCHANGED quizVars
    /\ UNCHANGED dbVars
    /\ UNCHANGED authVars
    /\ UNCHANGED mailVars

\* score, total = form.evaluate(), under the view's `if`.
TestGrade ==
    /\ phase = "Built"
    /\ ShouldGrade(session, testRequest.method, challengeData)
    /\ testResult' = [graded |-> TRUE,
                      result |-> Evaluate(session.correct_answers,
                                          ChallengeCleanedData(session, challengeData)),
                      errors |-> <<>>]
    /\ phase' = "Graded"
    /\ UNCHANGED challengeVars
    /\ UNCHANGED <<challengeData, testRequest, presented>>
    /\ UNCHANGED quizVars
    /\ UNCHANGED dbVars
    /\ UNCHANGED authVars
    /\ UNCHANGED mailVars

\* return render(...): the page with the form, its errors and the result, if there is one.
TestRender ==
    /\ \/ phase = "Graded"
       \/ /\ phase = "Built"
          /\ ~ShouldGrade(session, testRequest.method, challengeData)
    /\ testResult' = IF phase = "Graded" THEN testResult
                     ELSE [graded |-> FALSE, result |-> <<>>,
                           errors |-> IF IsBound(testRequest.method, challengeData)
                                      THEN ChallengeErrors(session, challengeData) ELSE <<>>]
    /\ presented' = IF testRequest.client = "user" /\ testRequest.method = "GET"
                    THEN [cohort |-> session.cohort, correct_answers |-> session.correct_answers]
                    ELSE presented
    /\ phase' = "idle"
    /\ UNCHANGED challengeVars
    /\ UNCHANGED <<challengeData, testRequest>>
    /\ UNCHANGED quizVars
    /\ UNCHANGED dbVars
    /\ UNCHANGED authVars
    /\ UNCHANGED mailVars

(***************************************************************************)
(* ChallengeTestForm.__init__ run by several request threads of one        *)
(* process. Each step below is one access to the shared option list; the   *)
(* interpreter can switch threads between any two of them.                 *)
(***************************************************************************)

\* Number of requests that are inside __init__ at the same time.
NThreads == 2

ThreadIds == 1..NThreads

NoOption == <<"", "">>

\* The locals of __init__ and of random.shuffle in one thread.
NewThread(cohort) ==
    [pc |-> "start", cohort |-> cohort, k |-> 0, i |-> 0, j |-> 0,
     a |-> NoOption, b |-> NoOption, s |-> 0, found |-> <<>>,
     correct_answers |-> <<>>, fields |-> <<>>]

\* The list object `options` of the question the thread is at.
ThreadOptions(t) == bank[threads[t].cohort][threads[t].k].options

\* for q_id, question, options, correct_answer in questions: the next
\* iteration, which opens with random.shuffle(options), or the end of the loop.
EnterQuestion(th, k) ==
    LET questions == Questions(bank, th.cohort)
    IN  IF k > Len(questions) THEN [th EXCEPT !.pc = "done", !.k = k]
        ELSE IF Len(questions[k].options) >= 2
             THEN [th EXCEPT !.pc = "shuffle", !.k = k, !.i = Len(questions[k].options)]
             ELSE [th EXCEPT !.pc = "scan", !.k = k, !.s = 1, !.found = <<>>]

\* self.correct_answers = {}; questions = self.CHALLENGE_QUESTIONS.get(cohort, [])
ThreadStart(t) ==
    /\ threads[t].pc = "start"
    /\ threads' = [threads EXCEPT ![t] = EnterQuestion(threads[t], 1)]
    /\ UNCHANGED <<bank, session, builds>>
    /\ UNCHANGED quizVars
    /\ UNCHANGED testVars
    /\ UNCHANGED authVars
    /\ UNCHANGED mailVars
    /\ UNCHANGED dbVars

\* random.shuffle: j = randbelow(i + 1), then the right-hand side of
\* x[i], x[j] = x[j], x[i] reads x[j] ...
ShuffleLoadJ(t) ==
    /\ threads[t].pc = "shuffle"
    /\ \E j \in 1..threads[t].i :
         threads' = [threads EXCEPT ![t] = [@ EXCEPT !.pc = "load_i", !.j = j,
                                                      !.a = ThreadOptions(t)[j]]]
    /\ UNCHANGED <<bank, session, builds>>
    /\ UNCHANGED quizVars
    /\ UNCHANGED testVars
    /\ UNCHANGED authVars
    /\ UNCHANGED mailVars
    /\ UNCHANGED dbVars

\* ... and then x[i].
ShuffleLoadI(t) ==
    /\ threads[t].pc = "load_i"
    /\ threads' = [threads EXCEPT ![t] = [@ EXCEPT !.pc = "store_i",
                                                   !.b = ThreadOptions(t)[threads[t].i]]]
    /\ UNCHANGED <<bank, session, builds>>
    /\ UNCHANGED quizVars
    /\ UNCHANGED testVars
    /\ UNCHANGED authVars
    /\ UNCHANGED mailVars
    /\ UNCHANGED dbVars

\* The left-hand side stores x[i] first ...
ShuffleStoreI(t) ==
    /\ threads[t].pc = "store_i"
    /\ bank' = [bank EXCEPT ![threads[t].cohort][threads[t].k].options[threads[t].i] = threads[t].a]
    /\ threads' = [threads EXCEPT ![t] = [@ EXCEPT !.pc = "store_j"]]
    /\ UNCHANGED <<session, builds>>
    /\ UNCHANGED quizVars
    /\ UNCHANGED testVars
    /\ UNCHANGED authVars
    /\ UNCHANGED mailVars
    /\ UNCHANGED dbVars

\* ... and then x[j]; the loop goes on with i - 1 down to the second element.
ShuffleStoreJ(t) ==
    /\ threads[t].pc = "store_j"
    /\ bank' = [bank EXCEPT ![threads[t].cohort][threads[t].k].options[threads[t].j] = threads[t].b]
    /\ threads' = [threads EXCEPT ![t] =
                     IF threads[t].i - 1 >= 2
                     THEN [@ EXCEPT !.pc = "shuffle", !.i = @ - 1, !.j = 0,
                                    !.a = NoOption, !.b = NoOption]
                     ELSE [@ EXCEPT !.pc = "scan", !.i = 0, !.j = 0,
                                    !.a = NoOption, !.b = NoOption, !.s = 1, !.found = <<>>]]
    /\ UNCHANGED <<session, builds>>
    /\ UNCHANGED quizVars
    /\ UNCHANGED testVars
    /\ UNCHANGED authVars
    /\ UNCHANGED mailVars
    /\ UNCHANGED dbVars

\* One iteration of [key for key, value in options if key == correct_answer].
ScanOption(t) ==
    /\ threads[t].pc = "scan"
    /\ LET th == threads[t]
           q == bank[th.cohort][th.k]
           found == IF th.s <= Len(q.options) /\ q.options[th.s][1] = q.correct_answer
                    THEN Append(th.found, q.options[th.s][1]) ELSE th.found
       IN  threads' = [threads EXCEPT ![t] =
                         IF th.s + 1 > Len(q.options)
                         THEN [th EXCEPT !.pc = "field", !.s = 0, !.found = found]
                         ELSE [th EXCEPT !.s = @ + 1, !.found = found]]
    /\ UNCHANGED <<bank, session, builds>>
    /\ UNCHANGED quizVars
    /\ UNCHANGED testVars
    /\ UNCHANGED authVars
    /\ UNCHANGED mailVars
    /\ UNCHANGED dbVars

\* new_correct_answer = [...][0]; self.correct_answers[q_id] = new_correct_answer;
\* self.fields[q_id] = forms.ChoiceField(..., choices=options, ...)
AddField(t) ==
    /\ threads[t].pc = "field"
    /\ LET th == threads[t]
           q == bank[th.cohort][th.k]
       IN  threads' = [threads EXCEPT ![t] =
             IF th.found = <<>> THEN [th EXCEPT !.pc = IndexError]
             ELSE EnterQuestion(
                    [th EXCEPT !.found = <<>>,
                               !.correct_answers =
                                   [x \in DOMAIN th.correct_answers \cup {q.q_id} |->
                                      IF x = q.q_id THEN th.found[1] ELSE th.correct_answers[x]],
                               !.fields =
                                   [x \in DOMAIN th.fields \cup {q.q_id} |->
                                      IF x = q.q_id THEN ChoiceField(q.question, q.options)
                                      ELSE th.fields[x]]],
                    th.k + 1)]
    /\ UNCHANGED <<bank, session, builds>>
    /\ UNCHANGED quizVars
    /\ UNCHANGED testVars
    /\ UNCHANGED authVars
    /\ UNCHANGED mailVars
    /\ UNCHANGED dbVars

(***************************************************************************)
(* The stored records (core/models.py)                                     *)
(***************************************************************************)

(***************************************************************************)
(* Accounts: register_view, logout_view and the views behind               *)
(* @user_passes_test(admin_check), one request at a time from one browser. *)
(***************************************************************************)

\* The choices of student_type.
STUDENT_TYPES == {"Future", "Current", "Alumni", "None"}

\* The three cohorts manage_cohorts creates, in its order.
DEFAULT_COHORTS == <<"Server & Cloud Applications", "Cloud Application Development",
                     "Cybersecurity Administration">>

\* The address register_view gives admin rights to.
ADMIN_EMAIL == "adminemail@gmail.com"

\* Number of rows core_customuser ever gets in the model.
MaxUsers == 2

\* The addresses typed into the forms: the admin address in two spellings, another
\* address with its domain in two spellings, and nothing.
SubmittedEmails == {"adminemail@gmail.com", "AdminEmail@gmail.com", "vet@example.com", "vet@Example.com", ""}

\* The student types sent with the forms: two of the choices, and nothing.
SubmittedTypes == {"Current", "None", ""}

\* The bodies posted to register_view and edit_user; others_ok tells whether the
\* fields that are not modelled (full_name, password1, password2) validate.
AccountData == [email : SubmittedEmails, student_type : SubmittedTypes, others_ok : BOOLEAN]

\* request.POST of a GET.
NoAccountData == [email |-> "", student_type |-> "", others_ok |-> FALSE]

\* The primary keys a URL can name: 0 is never a row.
UserIds == 0..MaxUsers

\* The cohort_id a POST to manage_cohorts can carry: 0 stands for none or an unknown one.
CohortIds == 0..Len(DEFAULT_COHORTS)

\* str.lower() on the submitted addresses.
Lower(email) ==
    CASE email = "AdminEmail@gmail.com" -> "adminemail@gmail.com"
      [] email = "vet@Example.com" -> "vet@example.com"
      [] OTHER -> email

\* BaseUserManager.normalize_email: the part after "@" in lower case, the part before it as typed.
NormalizeEmail(email) == IF email = "vet@Example.com" THEN "vet@example.com" ELSE email

\* CustomUser.objects.filter(email=email).exists()
EmailExists(email) == \E u \in users : u.email = email

\* ModelForm validate_unique after CustomUser.clean(): another row has the normalised address.
UniqueError(email, own_id) == \E u \in users : u.id # own_id /\ u.email = NormalizeEmail(email)

\* email = models.EmailField(unique=True): the constraint the database checks on INSERT.
IntegrityError(email) == \E u \in users : u.email = email

\* request.user when the session names no row.
AnonymousUser == [id |-> 0, email |-> "", is_staff |-> FALSE, is_superuser |-> FALSE, student_type |-> ""]

\* request.user
Requester ==
    IF \E u \in users : u.id = sessionUser
    THEN CHOOSE u \in users : u.id = sessionUser
    ELSE AnonymousUser

AdminCheckAuthenticated(user) == user.id # 0

\* admin_check
AdminCheck(user) == user.is_superuser

NoAuthResponse == [view |-> "", status |-> 0, redirect |-> "", error |-> "", form_error |-> ""]

\* render(request, template, ...): the page, the message put on it with messages.error
\* and the error of the form it shows.
Rendered(view, error, form_error) ==
    [view |-> view, status |-> 200, redirect |-> "", error |-> error, form_error |-> form_error]

\* redirect(name)
Redirected(view, name) == [view |-> view, status |-> 302, redirect |-> name, error |-> "", form_error |-> ""]

\* Http404 out of get_object_or_404
NotFound(view) == [view |-> view, status |-> 404, redirect |-> "", error |-> "Http404", form_error |-> ""]

\* An exception nothing catches
ServerError(view, error) == [view |-> view, status |-> 500, redirect |-> "", error |-> error, form_error |-> ""]

\* RegisterForm(request.POST).is_valid(): the message of the first failing check, "" if none.
RegisterFormError(data) ==
    IF data.email = "" THEN "required"
    ELSE IF EmailExists(data.email) THEN "Email is already in use."
    ELSE IF data.student_type \notin STUDENT_TYPES THEN "student_type"
    ELSE IF ~data.others_ok THEN "others"
    ELSE IF UniqueError(data.email, 0) THEN "User with this Email already exists."
    ELSE ""

CreatedUserExactMatch(data) ==
    [id |-> nextId,
     email |-> NormalizeEmail(data.email),
     is_staff |-> data.email = ADMIN_EMAIL,
     is_superuser |-> data.email = ADMIN_EMAIL,
     student_type |-> data.student_type]

\* CustomUserManager.create_user followed by register_view's admin branch: the new row.
CreatedUser(data) ==
    [id |-> nextId,
     email |-> NormalizeEmail(data.email),
     is_staff |-> Lower(data.email) = ADMIN_EMAIL,
     is_superuser |-> Lower(data.email) = ADMIN_EMAIL,
     student_type |-> data.student_type]

RegisterViewUnchecked(method, data) ==
    /\ method = "POST"
    /\ nextId <= MaxUsers
    /\ users' = users \cup {CreatedUser(data)}
    /\ nextId' = nextId + 1
    /\ sessionUser' = nextId
    /\ authResponse' = Redirected("register", "register_success")
    /\ UNCHANGED <<cohortVisibility, cohortQuizRows>>
    /\ UNCHANGED quizVars
    /\ UNCHANGED challengeVars
    /\ UNCHANGED testVars
    /\ UNCHANGED mailVars

\* register_view
RegisterView(method, data) ==
    /\ IF method # "POST"
       THEN /\ authResponse' = Rendered("register", "", "")
            /\ UNCHANGED <<users, nextId, sessionUser>>
       ELSE IF RegisterFormError(data) # ""
       THEN /\ authResponse' = Rendered("register",
                                        "Registration failed. Please check your details or try again with a different email.",
                                        RegisterFormError(data))
            /\ UNCHANGED <<users, nextId, sessionUser>>
       ELSE IF EmailExists(data.email)
       THEN /\ authResponse' = Rendered("register", "Email is already in use.", "")
            /\ UNCHANGED <<users, nextId, sessionUser>>
       ELSE IF IntegrityError(NormalizeEmail(data.email))
       THEN /\ authResponse' = ServerError("register", "IntegrityError")
            /\ UNCHANGED <<users, nextId, sessionUser>>
       ELSE /\ nextId <= MaxUsers
            /\ users' = users \cup {CreatedUser(data)}
            /\ nextId' = nextId + 1
            /\ sessionUser' = nextId
            /\ authResponse' = Redirected("register", "register_success")
    /\ UNCHANGED <<cohortVisibility, cohortQuizRows>>
    /\ UNCHANGED quizVars
    /\ UNCHANGED challengeVars
    /\ UNCHANGED testVars
    /\ UNCHANGED mailVars

\* logout_view, behind @login_required
LogoutView ==
    /\ IF Requester.id = 0
       THEN /\ authResponse' = Redirected("logout", "LOGIN_URL")
            /\ UNCHANGED sessionUser
       ELSE /\ sessionUser' = 0
            /\ authResponse' = Rendered("logout", "", "")
    /\ UNCHANGED <<users, nextId>>
    /\ UNCHANGED <<cohortVisibility, cohortQuizRows>>
    /\ UNCHANGED quizVars
    /\ UNCHANGED challengeVars
    /\ UNCHANGED testVars
    /\ UNCHANGED mailVars

\* manage_users
ManageUsers ==
    /\ authResponse' = IF AdminCheck(Requester) THEN Rendered("manage_users", "", "")
                       ELSE Redirected("manage_users", "LOGIN_URL")
    /\ UNCHANGED <<users, nextId, sessionUser>>
    /\ UNCHANGED <<cohortVisibility, cohortQuizRows>>
    /\ UNCHANGED quizVars
    /\ UNCHANGED challengeVars
    /\ UNCHANGED testVars
    /\ UNCHANGED mailVars

\* EditUserForm(request.POST, instance=user).is_valid(): the first failing check, "" if none.
EditUserFormError(data, user_id) ==
    IF data.email = "" THEN "required"
    ELSE IF data.student_type \notin STUDENT_TYPES THEN "student_type"
    ELSE IF ~data.others_ok THEN "others"
    ELSE IF UniqueError(data.email, user_id) THEN "User with this Email already exists."
    ELSE ""

\* edit_user
EditUser(user_id, method, data) ==
    /\ IF ~AdminCheck(Requester)
       THEN /\ authResponse' = Redirected("edit_user", "LOGIN_URL")
            /\ UNCHANGED users
       ELSE IF \A u \in users : u.id # user_id
       THEN /\ authResponse' = NotFound("edit_user")
            /\ UNCHANGED users
       ELSE IF method # "POST"
       THEN /\ authResponse' = Rendered("edit_user", "", "")
            /\ UNCHANGED users
       ELSE IF EditUserFormError(data, user_id) # ""
       THEN /\ authResponse' = Rendered("edit_user", "", EditUserFormError(data, user_id))
            /\ UNCHANGED users
       ELSE /\ users' = {IF u.id = user_id
                         THEN [u EXCEPT !.email = NormalizeEmail(data.email),
                                        !.student_type = data.student_type]
                         ELSE u : u \in users}
            /\ authResponse' = Redirected("edit_user", "manage_users")
    /\ UNCHANGED <<nextId, sessionUser>>
    /\ UNCHANGED <<cohortVisibility, cohortQuizRows>>
    /\ UNCHANGED quizVars
    /\ UNCHANGED challengeVars
    /\ UNCHANGED testVars
    /\ UNCHANGED mailVars

\* delete_user
DeleteUser(user_id, method) ==
    /\ IF ~AdminCheck(Requester)
       THEN /\ authResponse' = Redirected("delete_user", "LOGIN_URL")
            /\ UNCHANGED users
       ELSE IF \A u \in users : u.id # user_id
       THEN /\ authResponse' = NotFound("delete_user")
            /\ UNCHANGED users
       ELSE IF method # "POST"
       THEN /\ authResponse' = Rendered("delete_user", "", "")
            /\ UNCHANGED users
       ELSE /\ users' = {u \in users : u.id # user_id}
            /\ authResponse' = Redirected("delete_user", "manage_users")
    /\ UNCHANGED <<nextId, sessionUser>>
    /\ UNCHANGED <<cohortVisibility, cohortQuizRows>>
    /\ UNCHANGED quizVars
    /\ UNCHANGED challengeVars
    /\ UNCHANGED testVars
    /\ UNCHANGED mailVars

\* The largest id of a set of rows, 0 for none.
MaxId(rows) == IF rows = {} THEN 0 ELSE CHOOSE n \in {r.id : r \in rows} : \A r \in rows : r.id <= n

GetOrCreateFromReset(rows, k) ==
    {[id |-> n, name |-> DEFAULT_COHORTS[n], enabled |-> TRUE] : n \in k..Len(DEFAULT_COHORTS)}

RECURSIVE GetOrCreateFrom(_, _)
\* CohortVisibility.objects.get_or_create(name=name) for the default names from the k-th on.
GetOrCreateFrom(rows, k) ==
    IF k > Len(DEFAULT_COHORTS) THEN rows
    ELSE IF \E r \in rows : r.name = DEFAULT_COHORTS[k] THEN GetOrCreateFrom(rows, k + 1)
    ELSE GetOrCreateFrom(rows \cup {[id |-> MaxId(rows) + 1, name |-> DEFAULT_COHORTS[k], enabled |-> TRUE]},
                         k + 1)

ToggledDisable(rows, cohort_id) ==
    {IF r.id = cohort_id THEN [r EXCEPT !.enabled = FALSE] ELSE r : r \in rows}

\* cohort.enabled = not cohort.enabled; cohort.save()
Toggled(rows, cohort_id) ==
    {IF r.id = cohort_id THEN [r EXCEPT !.enabled = ~r.enabled] ELSE r : r \in rows}

\* manage_cohorts
ManageCohorts(method, cohort_id) ==
    /\ IF ~AdminCheck(Requester)
       THEN /\ authResponse' = Redirected("manage_cohorts", "LOGIN_URL")
            /\ UNCHANGED cohortVisibility
       ELSE LET rows == GetOrCreateFrom(cohortVisibility, 1)
            IN  IF method # "POST"
                THEN /\ cohortVisibility' = rows
                     /\ authResponse' = Rendered("manage_cohorts", "", "")
                ELSE IF \A r \in rows : r.id # cohort_id
                THEN /\ cohortVisibility' = rows
                     /\ authResponse' = NotFound("manage_cohorts")
                ELSE /\ cohortVisibility' = Toggled(rows, cohort_id)
                     /\ authResponse' = Redirected("manage_cohorts", "manage_cohorts")
    /\ UNCHANGED <<users, nextId, sessionUser, cohortQuizRows>>
    /\ UNCHANGED quizVars
    /\ UNCHANGED challengeVars
    /\ UNCHANGED testVars
    /\ UNCHANGED mailVars

(***************************************************************************)
(* Logging in and passwords: login_view, home, the three student home      *)
(* pages, forgot_password and reset_password, requested by one browser     *)
(* that follows the redirects it is given.                                 *)
(***************************************************************************)

\* The accounts of this part: one of every student type, each with a password.
LoginUsers ==
    {[id |-> 1, email |-> "current@example.com", is_staff |-> FALSE, is_superuser |-> FALSE,
      student_type |-> "Current", password |-> "pw1"],
     [id |-> 2, email |-> "future@example.com", is_staff |-> FALSE, is_superuser |-> FALSE,
      student_type |-> "Future", password |-> "pw1"],
     [id |-> 3, email |-> "alumni@example.com", is_staff |-> FALSE, is_superuser |-> FALSE,
      student_type |-> "Alumni", password |-> "pw1"],
     [id |-> 4, email |-> "none@example.com", is_staff |-> FALSE, is_superuser |-> FALSE,
      student_type |-> "None", password |-> "pw1"]}

\* The addresses typed into the login and forgot-password forms: the accounts', one
\* that no account has, one that is no address, and nothing.
TypedEmails == {u.email : u \in LoginUsers} \cup {"nobody@example.com", "not-an-email", ""}

\* The passwords typed: the initial one, another one, one with a leading blank,
\* a blank alone, and nothing.
TypedPasswords == {"pw1", "pw2", " pw2", " ", ""}

\* forms.CharField.to_python with the default strip=True: value.strip().
Strip(value) ==
    CASE value = " pw2" -> "pw2"
      [] value = " " -> ""
      [] OTHER -> value

\* The body posted to login_view.
LoginData == [email : TypedEmails, password : TypedPasswords]

\* The body posted to reset_password.
ResetData == [password : TypedPasswords, confirm_password : {"pw1", " ", ""}]

\* request.POST of a GET.
NoResetData == [password |-> "", confirm_password |-> ""]

\* The user ids a reset link can name: 0 is never a row.
ResetIds == 0..Cardinality(LoginUsers)

\* EmailField.clean: the value is an address.
IsEmail(email) == email \notin {"", "not-an-email"}

\* authenticate(request, email=..., password=...): the account with these credentials, if any.
Authenticate(email, password) == {u \in users : u.email = email /\ u.password = password}

\* LoginForm(request, data=request.POST).is_valid(): both fields given, the first an
\* address, and AuthenticationForm.clean finds the credentials right.
LoginFormValid(data) ==
    /\ IsEmail(data.email)
    /\ Strip(data.password) # ""
    /\ Authenticate(data.email, Strip(data.password)) # {}

\* The page a student type is sent to; "home" for any other type.
LoginRedirect(student_type) ==
    IF student_type = "Current" THEN "current_student_home"
    ELSE IF student_type = "Future" THEN "future_student_home"
    ELSE IF student_type = "Alumni" THEN "alumni_home"
    ELSE "home"

\* login_view
LoginView(method, data) ==
    /\ IF method # "POST"
       THEN /\ authResponse' = Rendered("login", "", "")
            /\ UNCHANGED sessionUser
       ELSE IF ~LoginFormValid(data)
       THEN /\ authResponse' = Rendered("login", "Invalid email or password.", "invalid_login")
            /\ UNCHANGED sessionUser
       ELSE IF \A u \in users : u.email # data.email
       THEN /\ authResponse' = Rendered("login", "User with this email does not exist.", "")
            /\ UNCHANGED sessionUser
       ELSE IF Authenticate(data.email, Strip(data.password)) = {}
       THEN /\ authResponse' = Rendered("login", "Invalid email or password.", "")
            /\ UNCHANGED sessionUser
       ELSE \E user \in Authenticate(data.email, Strip(data.password)) :
                /\ sessionUser' = user.id
                /\ authResponse' = Redirected("login", LoginRedirect(user.student_type))
    /\ UNCHANGED <<users, nextId>>
    /\ UNCHANGED <<cohortVisibility, cohortQuizRows>>
    /\ UNCHANGED quizVars
    /\ UNCHANGED challengeVars
    /\ UNCHANGED testVars
    /\ UNCHANGED mailVars

HomeRedirectAll ==
    /\ authResponse' = IF Requester.id # 0
                       THEN Redirected("home", LoginRedirect(Requester.student_type))
                       ELSE Rendered("home", "", "")
    /\ UNCHANGED <<users, nextId, sessionUser>>
    /\ UNCHANGED <<cohortVisibility, cohortQuizRows>>
    /\ UNCHANGED quizVars
    /\ UNCHANGED challengeVars
    /\ UNCHANGED testVars
    /\ UNCHANGED mailVars

\* home
Home ==
    /\ authResponse' = IF Requester.id # 0 /\ Requester.student_type = "Current"
                       THEN Redirected("home", "current_student_home")
                       ELSE IF Requester.id # 0 /\ Requester.student_type = "Future"
                       THEN Redirected("home", "future_student_home")
                       ELSE IF Requester.id # 0 /\ Requester.student_type = "Alumni"
                       THEN Redirected("home", "alumni_home")
                       ELSE Rendered("home", "", "")
    /\ UNCHANGED <<users, nextId, sessionUser>>
    /\ UNCHANGED <<cohortVisibility, cohortQuizRows>>
    /\ UNCHANGED quizVars
    /\ UNCHANGED challengeVars
    /\ UNCHANGED testVars
    /\ UNCHANGED mailVars

\* The three pages behind @login_required.
StudentHomes == {"current_student_home", "future_student_home", "alumni_home"}

\* current_student_home, future_student_home, alumni_home
StudentHome(view) ==
    /\ authResponse' = IF Requester.id = 0 THEN Redirected(view, "LOGIN_URL")
                       ELSE Rendered(view, "", "")
    /\ UNCHANGED <<users, nextId, sessionUser>>
    /\ UNCHANGED <<cohortVisibility, cohortQuizRows>>
    /\ UNCHANGED quizVars
    /\ UNCHANGED challengeVars
    /\ UNCHANGED testVars
    /\ UNCHANGED mailVars

\* forgot_password_confirmation
ForgotPasswordConfirmation ==
    /\ authResponse' = Rendered("forgot_password_confirmation", "", "")
    /\ UNCHANGED <<users, nextId, sessionUser>>
    /\ UNCHANGED <<cohortVisibility, cohortQuizRows>>
    /\ UNCHANGED quizVars
    /\ UNCHANGED challengeVars
    /\ UNCHANGED testVars
    /\ UNCHANGED mailVars

\* send_mail("Reset Password", "Click here ...: /reset-password/<id>/", sender, [user.email])
ResetMail(user) == [to |-> user.email, subject |-> "Reset Password", reset_link |-> user.id]

ForgotPasswordRevealing(method, data) ==
    /\ IF method # "POST"
       THEN /\ authResponse' = Rendered("forgot_password", "", "")
            /\ UNCHANGED outbox
       ELSE IF IsEmail(data.email) /\ \E u \in users : u.email = data.email
       THEN /\ outbox' = outbox \cup {ResetMail(u) : u \in {v \in users : v.email = data.email}}
            /\ authResponse' = Redirected("forgot_password", "forgot_password_confirmation")
       ELSE /\ authResponse' = Rendered("forgot_password", "No account with this email.", "")
            /\ UNCHANGED outbox
    /\ UNCHANGED <<users, nextId, sessionUser>>
    /\ UNCHANGED <<cohortVisibility, cohortQuizRows>>
    /\ UNCHANGED quizVars
    /\ UNCHANGED challengeVars
    /\ UNCHANGED testVars

\* forgot_password; .first() of the rows with the address (email is unique: at most one)
ForgotPassword(method, data) ==
    /\ IF method # "POST"
       THEN /\ authResponse' = Rendered("forgot_password", "", "")
            /\ UNCHANGED outbox
       ELSE /\ outbox' = IF IsEmail(data.email)
                         THEN outbox \cup {ResetMail(u) : u \in {v \in users : v.email = data.email}}
                         ELSE outbox
            /\ authResponse' = Redirected("forgot_password", "forgot_password_confirmation")
    /\ UNCHANGED <<users, nextId, sessionUser>>
    /\ UNCHANGED <<cohortVisibility, cohortQuizRows>>
    /\ UNCHANGED quizVars
    /\ UNCHANGED challengeVars
    /\ UNCHANGED testVars

ResetPasswordFormValidAlways(data) == TRUE

\* ResetPasswordForm(request.POST).is_valid(): both CharFields are required after
\* stripping; nothing compares them.
ResetPasswordFormValid(data) == Strip(data.password) # "" /\ Strip(data.confirm_password) # ""

\* reset_password. A changed password ends the sessions of that user (their hash no
\* longer matches); cleaned_data["password"] is the stripped value;
\* redirect("reset_password_confirmation") names a URL that no
\* urls.py of the sources defines and raises NoReverseMatch after the save.
ResetPassword(user_id, method, data) ==
    /\ IF \A u \in users : u.id # user_id
       THEN /\ authResponse' = NotFound("reset_password")
            /\ UNCHANGED <<users, sessionUser>>
       ELSE IF method # "POST"
       THEN /\ authResponse' = Rendered("reset_password", "", "")
            /\ UNCHANGED <<users, sessionUser>>
       ELSE IF ~ResetPasswordFormValid(data)
       THEN /\ authResponse' = Rendered("reset_password", "", "required")
            /\ UNCHANGED <<users, sessionUser>>
       ELSE /\ users' = {IF u.id = user_id THEN [u EXCEPT !.password = Strip(data.password)] ELSE u : u \in users}
            /\ sessionUser' = IF sessionUser = user_id THEN 0 ELSE sessionUser
            /\ authResponse' = ServerError("reset_password", "NoReverseMatch")
    /\ UNCHANGED nextId
    /\ UNCHANGED <<cohortVisibility, cohortQuizRows>>
    /\ UNCHANGED quizVars
    /\ UNCHANGED challengeVars
    /\ UNCHANGED testVars
    /\ UNCHANGED mailVars

\* The browser has been answered with a redirect it has not followed yet.
Redirecting == authResponse.status = 302

\* The browser requests the page a redirect names.
FollowRedirect ==
    /\ Redirecting
    /\ \/ authResponse.redirect = "home" /\ Home
       \/ authResponse.redirect \in StudentHomes /\ StudentHome(authResponse.redirect)
       \/ authResponse.redirect = "LOGIN_URL" /\ LoginView("GET", [email |-> "", password |-> ""])
       \/ authResponse.redirect = "forgot_password_confirmation" /\ ForgotPasswordConfirmation

\* CustomUser rows: a database with no account, and one with a superuser and a student.
InitUsers ==
    { {},
      {[id |-> 1, email |-> "adminemail@gmail.com", is_superuser |-> TRUE, student_type |-> "None"],
       [id |-> 2, email |-> "student@example.com", is_superuser |-> FALSE, student_type |-> "Future"]} }

\* CohortVisibility rows: none yet, and the three default cohorts as manage_cohorts creates them.
InitCohortVisibility ==
    { {},
      {[id |-> 1, name |-> "Server & Cloud Applications", enabled |-> TRUE],
       [id |-> 2, name |-> "Cloud Application Development", enabled |-> TRUE],
       [id |-> 3, name |-> "Cybersecurity Administration", enabled |-> TRUE]} }

Init ==
    /\ quizData = [q \in QuizFieldSet |-> ""]
    /\ response = NoResponse
    /\ users \in InitUsers
    /\ cohortVisibility \in InitCohortVisibility
    /\ cohortQuizRows = {}
    /\ bank = CHALLENGE_QUESTIONS
    /\ session = NoSession
    /\ builds = 0
    /\ threads = <<>>
    /\ challengeData = [key \in ChallengeKeys |-> ""]
    /\ testRequest = NoTestRequest
    /\ phase = "idle"
    /\ testResult = NoTestResult
    /\ presented = NoPresented
    /\ sessionUser = 0
    /\ authResponse = NoAuthResponse
    /\ nextId = 1
    /\ outbox = {}

CohortQuizGet == CohortQuiz("GET")

CohortQuizPost == CohortQuiz("POST")

Next ==
    \/ \E q \in QuizFieldSet, v \in Submittable : SelectAnswer(q, v)
    \/ CohortQuizGet
    \/ CohortQuizPost

Spec == Init /\ [][Next]_vars

\* The challenge test, one request at a time.
InitBuild ==
    /\ quizData = [q \in QuizFieldSet |-> ""]
    /\ response = NoResponse
    /\ users = {}
    /\ cohortVisibility = {}
    /\ cohortQuizRows = {}
    /\ bank = CHALLENGE_QUESTIONS
    /\ session = NoSession
    /\ builds = 0
    /\ threads = <<>>
    /\ challengeData = [key \in ChallengeKeys |-> ""]
    /\ testRequest = NoTestRequest
    /\ phase = "idle"
    /\ testResult = NoTestResult
    /\ presented = NoPresented
    /\ sessionUser = 0
    /\ authResponse = NoAuthResponse
    /\ nextId = 1
    /\ outbox = {}

NextBuild == \E cohort \in RequestableCohorts : Build(cohort)

SpecBuild == InitBuild /\ [][NextBuild]_vars

\* challenge_test requested by two browsers, one request at a time.
InitTest == InitBuild

NextTest ==
    \/ \E key \in ChallengeKeys : \E v \in ChallengeValues(key) : SelectChallengeAnswer(key, v)
    \/ \E client \in Clients, cohort \in TestCohorts, method \in {"GET", "POST"} :
           TestReceive(client, cohort, method)
    \/ TestBuild
    \/ TestGrade
    \/ TestRender

SpecTest == InitTest /\ [][NextTest]_vars

\* The cohort the concurrent requests ask for (the three cohorts have the same shape).
ConcurrentCohort == "cloud"

\* The challenge test of one cohort requested by NThreads clients at once.
InitConc ==
    /\ quizData = [q \in QuizFieldSet |-> ""]
    /\ response = NoResponse
    /\ users = {}
    /\ cohortVisibility = {}
    /\ cohortQuizRows = {}
    /\ bank = CHALLENGE_QUESTIONS
    /\ session = NoSession
    /\ builds = 0
    /\ threads = [t \in ThreadIds |-> NewThread(ConcurrentCohort)]
    /\ challengeData = [key \in ChallengeKeys |-> ""]
    /\ testRequest = NoTestRequest
    /\ phase = "idle"
    /\ testResult = NoTestResult
    /\ presented = NoPresented
    /\ sessionUser = 0
    /\ authResponse = NoAuthResponse
    /\ nextId = 1
    /\ outbox = {}

NextConc ==
    \E t \in ThreadIds :
        \/ ThreadStart(t)
        \/ ShuffleLoadJ(t)
        \/ ShuffleLoadI(t)
        \/ ShuffleStoreI(t)
        \/ ShuffleStoreJ(t)
        \/ ScanOption(t)
        \/ AddField(t)

SpecConc == InitConc /\ [][NextConc]_vars

\* The account and admin views, starting from empty tables and a browser that is not logged in.
InitAccounts == InitBuild

\* A GET carries no body.
RegisterGet == RegisterView("GET", NoAccountData)

RegisterPost(data) == RegisterView("POST", data)

EditUserGet(user_id) == EditUser(user_id, "GET", NoAccountData)

EditUserPost(user_id, data) == EditUser(user_id, "POST", data)

NextAccounts ==
    \/ RegisterGet
    \/ \E data \in AccountData : RegisterPost(data)
    \/ LogoutView
    \/ ManageUsers
    \/ \E user_id \in UserIds : EditUserGet(user_id)
    \/ \E user_id \in UserIds, data \in AccountData : EditUserPost(user_id, data)
    \/ \E user_id \in UserIds, method \in {"GET", "POST"} : DeleteUser(user_id, method)
    \/ \E method \in {"GET", "POST"}, cohort_id \in CohortIds : ManageCohorts(method, cohort_id)

SpecAccounts == InitAccounts /\ [][NextAccounts]_vars

\* Logging in and passwords: the four accounts exist, nobody is logged in.
InitLogin ==
    /\ quizData = [q \in QuizFieldSet |-> ""]
    /\ response = NoResponse
    /\ users = LoginUsers
    /\ cohortVisibility = {}
    /\ cohortQuizRows = {}
    /\ bank = CHALLENGE_QUESTIONS
    /\ session = NoSession
    /\ builds = 0
    /\ threads = <<>>
    /\ challengeData = [key \in ChallengeKeys |-> ""]
    /\ testRequest = NoTestRequest
    /\ phase = "idle"
    /\ testResult = NoTestResult
    /\ presented = NoPresented
    /\ sessionUser = 0
    /\ authResponse = NoAuthResponse
    /\ nextId = Cardinality(LoginUsers) + 1
    /\ outbox = {}

LoginGet == ~Redirecting /\ LoginView("GET", [email |-> "", password |-> ""])

LoginPost(data) == ~Redirecting /\ LoginView("POST", data)

ForgotPasswordGet == ~Redirecting /\ ForgotPassword("GET", [email |-> ""])

ForgotPasswordPost(email) == ~Redirecting /\ ForgotPassword("POST", [email |-> email])

ResetPasswordGet(user_id) == ~Redirecting /\ ResetPassword(user_id, "GET", NoResetData)

ResetPasswordPost(user_id, data) == ~Redirecting /\ ResetPassword(user_id, "POST", data)

\* The browser asks for a page only when it has no redirect to follow.
NextLogin ==
    \/ LoginGet
    \/ \E data \in LoginData : LoginPost(data)
    \/ ~Redirecting /\ LogoutView
    \/ ~Redirecting /\ Home
    \/ \E view \in StudentHomes : ~Redirecting /\ StudentHome(view)
    \/ ForgotPasswordGet
    \/ \E email \in TypedEmails : ForgotPasswordPost(email)
    \/ \E user_id \in ResetIds : ResetPasswordGet(user_id)
    \/ \E user_id \in ResetIds, data \in ResetData : ResetPasswordPost(user_id, data)
    \/ FollowRedirect

SpecLogin == InitLogin /\ [][NextLogin]_vars

\* The requests of the login and reset pages alone: no mail is sent.
NextReset ==
    \/ LoginGet
    \/ \E data \in LoginData : LoginPost(data)
    \/ \E user_id \in ResetIds : ResetPasswordGet(user_id)
    \/ \E user_id \in ResetIds, data \in ResetData : ResetPasswordPost(user_id, data)
    \/ ~Redirecting /\ LogoutView
    \/ ~Redirecting /\ Home
    \/ \E view \in StudentHomes : ~Redirecting /\ StudentHome(view)
    \/ FollowRedirect

SpecReset == InitLogin /\ [][NextReset]_vars

\* The browser follows every redirect it is given.
SpecLoginFair == SpecLogin /\ WF_vars(FollowRedirect)

(***************************************************************************)
(* Properties of cohort_quiz                                               *)
(***************************************************************************)

ResultPage == response.template = "quiz/cohort_quiz_result.html"

FormPage == response.template = "quiz/cohort_quiz.html"

\* The number of fields of the submission that carry the tag.
Tally(tag) == Cardinality({q \in QuizFieldSet : quizData[q] = tag})

MaxTally == CHOOSE m \in {Tally("Cloud"), Tally("Server"), Tally("Cyber")} :
                \A t \in {"Cloud", "Server", "Cyber"} : m >= Tally(t)

\* The cohorts in display order, each with its category.
DisplayOrder ==
    <<[tag |-> "Cloud", cohort |-> "Cloud Application Development"],
      [tag |-> "Server", cohort |-> "Server & Cloud Applications"],
      [tag |-> "Cyber", cohort |-> "Cybersecurity Administration"]>>

TagOf(cohort) == (CHOOSE i \in 1..3 : DisplayOrder[i].cohort = cohort)

\* A submission the form must refuse: some field is missing or carries no choice.
InvalidSubmission(data) ==
    \E q \in QuizFieldSet : data[q] \notin {"Cloud", "Server", "Cyber"}

\* C1: for a valid submission, the recommendation lists every category whose
\* tally equals the maximum tally, in the order Cloud, Server, Cyber; a tie is
\* never reduced to one cohort.
C1_AllTiedCohortsInOrder ==
    ResultPage =>
        LET tied == SelectSeq(DisplayOrder, LAMBDA e : Tally(e.tag) = MaxTally)
        IN  response.context.suggestions = [i \in 1..Len(tied) |-> tied[i].cohort]

\* C1 witness: three Cloud and three Server answers recommend both cohorts.
C1_Witness ==
    /\ ResultPage
    /\ Tally("Cloud") = 3 /\ Tally("Server") = 3
    /\ response.context.suggestions =
         <<"Cloud Application Development", "Server & Cloud Applications">>

\* C2: for a valid submission, the recommended list is non-empty, has 1, 2 or 3
\* entries, and holds only cohorts whose tally is the maximum tally.
C2_NonEmptyOnlyMax ==
    ResultPage =>
        LET s == response.context.suggestions
        IN  /\ Len(s) \in {1, 2, 3}
            /\ \A i \in 1..Len(s) :
                 /\ \E j \in 1..3 : DisplayOrder[j].cohort = s[i]
                 /\ Tally(DisplayOrder[TagOf(s[i])].tag) = MaxTally

\* C2 witness: six Cloud answers recommend exactly Cloud Application Development.
C2_Witness ==
    /\ ResultPage
    /\ Tally("Cloud") = 6
    /\ response.context.suggestions = <<"Cloud Application Development">>

\* C3: for a valid submission, the three tallies of the result are
\* non-negative and add up to the six answers.
C3_TallySumsToSix ==
    ResultPage =>
        /\ response.context.score_cloud >= 0
        /\ response.context.score_server >= 0
        /\ response.context.score_cyber >= 0
        /\ response.context.score_cloud + response.context.score_server
             + response.context.score_cyber = 6
        /\ response.context.score_cloud = Tally("Cloud")
        /\ response.context.score_server = Tally("Server")
        /\ response.context.score_cyber = Tally("Cyber")

\* C3 witness: a result whose three tallies are all positive.
C3_Witness ==
    /\ ResultPage
    /\ response.context.score_cloud = 1
    /\ response.context.score_server = 2
    /\ response.context.score_cyber = 3

\* C4: the suggestion sentence of a result is defined and follows the join
\* grammar: "the X cohort", "the X and Y cohorts", "the X, Y, and Z cohorts".
C4_JoinGrammar ==
    ResultPage =>
        LET s == response.context.suggestions
            joined == IF Len(s) = 1 THEN "the " \o s[1] \o " cohort"
                      ELSE IF Len(s) = 2 THEN "the " \o s[1] \o " and " \o s[2] \o " cohorts"
                      ELSE "the " \o s[1] \o ", " \o s[2] \o ", and " \o s[3] \o " cohorts"
        IN  /\ response.context.suggestion # Unbound
            /\ Len(s) \in {1, 2, 3}
            /\ response.context.suggestion =
                 "Based on your answers, you should consider " \o joined \o "."

\* C4 witness: a three-way tie produces the three-cohort sentence.
C4_Witness ==
    /\ ResultPage
    /\ Tally("Cloud") = 2 /\ Tally("Server") = 2 /\ Tally("Cyber") = 2
    /\ response.context.suggestion =
         "Based on your answers, you should consider the Cloud Application Development, Server & Cloud Applications, and Cybersecurity Administration cohorts."

\* C5: a POST in which some answer is missing or is no choice of its field is
\* refused: the form is shown again with an error on exactly the offending
\* fields, and the response carries no tally and no recommendation.
C5_InvalidRejected ==
    [][(CohortQuizPost /\ InvalidSubmission(quizData)) =>
           /\ response'.template = "quiz/cohort_quiz.html"
           /\ DOMAIN response'.context = {"errors"}
           /\ DOMAIN response'.context.errors =
                {q \in QuizFieldSet : quizData[q] \notin {"Cloud", "Server", "Cyber"}}]_vars

\* C5 witness: a refused submission with one answer missing and one out of set.
C5_Witness ==
    /\ FormPage
    /\ \E q1 \in DOMAIN response.context.errors, q2 \in DOMAIN response.context.errors :
         /\ quizData[q1] = "" /\ response.context.errors[q1] = "required"
         /\ quizData[q2] = "Other" /\ response.context.errors[q2] = "invalid_choice"

\* C6: a cohort_quiz request, valid or not, leaves every stored record as it
\* was: no CohortQuiz row, user or cohort-visibility record is created,
\* changed or deleted.
C6_NoStoredRecordChanges ==
    [][(response' # NoResponse) =>
           /\ users' = users
           /\ cohortVisibility' = cohortVisibility
           /\ cohortQuizRows' = cohortQuizRows]_vars

\* C6 witness: a recommendation was computed over a database that holds records.
C6_Witness ==
    /\ ResultPage
    /\ users # {} /\ cohortVisibility # {}
    /\ cohortQuizRows = {}

(***************************************************************************)
(* Properties of ChallengeTestForm.__init__ (build)                        *)
(***************************************************************************)

\* The session was built for a cohort of the bank.
BuiltForKnownCohort == session.cohort \in DOMAIN CHALLENGE_QUESTIONS

\* The text the bank designates as correct for question k of a cohort.
CorrectText(cohort, k) ==
    LET q == CHALLENGE_QUESTIONS[cohort][k]
    IN  q.options[CHOOSE i \in 1..Len(q.options) : q.options[i][1] = q.correct_answer][2]

\* The texts displayed under a key in a list of choices.
TextsUnder(choices, key) ==
    {choices[i][2] : i \in {n \in 1..Len(choices) : choices[n][1] = key}}

\* The positions at which a list of choices displays a text.
PositionsOf(choices, text) == {i \in 1..Len(choices) : choices[i][2] = text}

IsPermutationOf(a, b) ==
    /\ Len(a) = Len(b)
    /\ \E f \in Bijections(Len(b)) : \A i \in 1..Len(b) : a[i] = b[f[i]]

\* C7: after any sequence of builds, a session built for a known cohort has as
\* many questions as the bank has for the cohort, and in every question the
\* option under the recorded correct key shows the bank's correct text.
C7_CorrectTextPreserved ==
    BuiltForKnownCohort =>
        LET qs == CHALLENGE_QUESTIONS[session.cohort]
        IN  /\ Cardinality(DOMAIN session.fields) = Len(qs)
            /\ Len(bank[session.cohort]) = Len(qs)
            /\ \A k \in 1..Len(qs) :
                 /\ qs[k].q_id \in DOMAIN session.fields
                 /\ qs[k].q_id \in DOMAIN session.correct_answers
                 /\ TextsUnder(session.fields[qs[k].q_id].choices,
                               session.correct_answers[qs[k].q_id])
                      = {CorrectText(session.cohort, k)}

\* C7 witness: a second build whose first question displays the correct option last.
C7_Witness ==
    /\ builds >= 2
    /\ session.cohort = "cloud"
    /\ session.fields["q1"].choices[3] = <<"A", "A cloud computing model">>

\* C8 as stated: shuffling reassigns the keys, so whenever the correct text is
\* displayed at another position than in the bank as written, the key recorded
\* for the presentation differs from the bank's original correct key.
C8_KeyFollowsPosition ==
    BuiltForKnownCohort =>
        LET qs == CHALLENGE_QUESTIONS[session.cohort]
        IN  \A k \in 1..Len(qs) :
              PositionsOf(session.fields[qs[k].q_id].choices, CorrectText(session.cohort, k))
                  # PositionsOf(qs[k].options, CorrectText(session.cohort, k))
              => session.correct_answers[qs[k].q_id] # qs[k].correct_answer

\* C8 amended: the shuffle moves (key, text) pairs as units, so every key keeps
\* its text; the key build records is the bank's original correct key, in every
\* presentation, wherever the correct option is displayed.
C8_RecordedKeyIsBankKey ==
    BuiltForKnownCohort =>
        LET qs == CHALLENGE_QUESTIONS[session.cohort]
        IN  \A k \in 1..Len(qs) :
              /\ session.correct_answers[qs[k].q_id] = qs[k].correct_answer
              /\ \A i \in 1..Len(qs[k].options) :
                   TextsUnder(session.fields[qs[k].q_id].choices, qs[k].options[i][1])
                       = {qs[k].options[i][2]}

\* C8 witness: the correct text is displayed second, and the recorded key is still A.
C8_Witness ==
    /\ session.cohort = "server"
    /\ PositionsOf(session.fields["q2"].choices, "Docker") = {2}
    /\ session.correct_answers["q2"] = "A"

\* C9: build never modifies the question bank: the options stored for every
\* question of every cohort keep the order and content they had at startup.
C9_BankNeverModified == bank = CHALLENGE_QUESTIONS

\* C10: under every interleaving of concurrent builds for one cohort, no build
\* fails to find its correct key, and every finished session holds, for every
\* question, a permutation of the bank's options and a recorded correct key
\* that points at the correct text.
C10_ConcurrentBuildsIsolated ==
    \A t \in DOMAIN threads :
        /\ threads[t].pc # IndexError
        /\ threads[t].pc = "done" =>
             LET qs == CHALLENGE_QUESTIONS[threads[t].cohort]
             IN  \A k \in 1..Len(qs) :
                   /\ IsPermutationOf(threads[t].fields[qs[k].q_id].choices, qs[k].options)
                   /\ TextsUnder(threads[t].fields[qs[k].q_id].choices,
                                 threads[t].correct_answers[qs[k].q_id])
                        = {CorrectText(threads[t].cohort, k)}

(***************************************************************************)
(* Claims about evaluate and challenge_test.                               *)
(***************************************************************************)

\* The request in hand was graded: evaluate ran and its pair is the result.
Graded == testResult.graded

\* Question ids of the answer key whose submitted option key is the key recorded as correct.
Matches == {q \in DOMAIN session.correct_answers : Get(challengeData, q) = session.correct_answers[q]}

\* C11: evaluate returns (score, total): total is the number of questions in the
\* session's answer key, score the number of ids of the answer key whose submitted
\* key equals the recorded correct key; on a two-question session, matching both
\* gives (2,2) and matching neither gives (0,2).
C11_EvaluateCountsMatches ==
    Graded =>
        /\ testResult.result = <<Cardinality(Matches), Cardinality(DOMAIN session.correct_answers)>>
        /\ DOMAIN session.correct_answers = {"q1", "q2"} =>
              /\ Matches = {"q1", "q2"} => testResult.result = <<2, 2>>
              /\ Matches = {} => testResult.result = <<0, 2>>

\* A two-question test, shown in another order than at startup, answered right on both questions.
C11_Witness ==
    /\ Graded
    /\ testResult.result = <<2, 2>>
    /\ session.fields["q1"].choices # CHALLENGE_QUESTIONS.cloud[1].options

\* C12: every challenge result satisfies 0 <= score <= total, for known and
\* unknown cohorts and every submitted answer map.
C12_ScoreWithinTotal ==
    Graded =>
        /\ 0 <= testResult.result[1]
        /\ testResult.result[1] <= testResult.result[2]

\* A result strictly between the two ends: one answer right, one wrong.
C12_Witness ==
    /\ Graded
    /\ 0 < testResult.result[1]
    /\ testResult.result[1] < testResult.result[2]

\* challenge_test has answered a POST; session is the form it built for that request.
AnsweredPost == phase = "idle" /\ testRequest.method = "POST"

\* The option keys of a question of the session.
OptionKeys(q) == {session.fields[q].choices[n][1] : n \in 1..Len(session.fields[q].choices)}

\* The questions of the session the posted body has no option key for.
Unanswered == {q \in DOMAIN session.fields : Get(challengeData, q) \notin OptionKeys(q)}

C14_EvaluateLeavesSession ==
    [][(phase = "Built" /\ phase' = "Graded") =>
          /\ session' = session
          /\ bank' = bank
          /\ challengeData' = challengeData
          /\ Evaluate(session'.correct_answers, ChallengeCleanedData(session', challengeData'))
                = testResult'.result]_vars

\* evaluate has just run on a session with questions.
C14_Witness ==
    /\ phase = "Graded"
    /\ DOMAIN session.correct_answers # {}
    /\ Graded

\* C15: building for a cohort that is no key of the bank raises nothing and gives a
\* session without questions and with an empty answer key; evaluate on it returns (0, 0).
C15_UnknownCohortEmptySession ==
    (phase \in {"Built", "Graded"} /\ testRequest.cohort \notin DOMAIN CHALLENGE_QUESTIONS) =>
        /\ session.cohort = testRequest.cohort
        /\ session.fields = <<>>
        /\ session.correct_answers = <<>>
        /\ Graded => testResult.result = <<0, 0>>

\* A POST for the unknown cohort was graded.
C15_Witness ==
    /\ phase = "Graded"
    /\ testRequest.cohort = "nonexistent"
    /\ testResult.result = <<0, 0>>

\* C16: a presentation goes NotBuilt -> Built -> Graded and nothing else: a request
\* is built before anything else happens to it, grading starts only from Built and
\* only for a POST whose built form validated, a GET is never graded, and after
\* Graded the request can only be answered; a form is built only for a new request.
C16_PresentationStateMachine ==
    [][/\ phase = "NotBuilt" => phase' = "Built"
       /\ phase' = "Built" => phase = "NotBuilt"
       /\ phase' = "Graded" =>
             /\ phase = "Built"
             /\ testRequest.method = "POST"
             /\ ChallengeIsValid(session, testRequest.method, challengeData)
       /\ phase = "Graded" => phase' = "idle"
       /\ testResult'.graded => (testRequest'.method = "POST" /\ phase' \in {"Graded", "idle"})
       /\ phase' = "NotBuilt" => (phase = "idle" /\ ~testResult'.graded)]_vars

\* A POST for a cohort of the bank has been built and graded.
C16_Witness ==
    /\ phase = "Graded"
    /\ testRequest.method = "POST"
    /\ testRequest.cohort = "cloud"

\* C17: a POST is graded against the answer key of the presentation the user answered:
\* when the user's POST for the cohort of the user's last GET is graded, whatever was
\* built in between, the answer key used equals the answer key of that GET's session.
C17_GradedAgainstPresentedKey ==
    (Graded /\ testRequest.client = "user" /\ presented.cohort = testRequest.cohort) =>
        session.correct_answers = presented.correct_answers

\* The user's POST for the cohort shown to the user is graded after the bank was reordered.
C17_Witness ==
    /\ Graded
    /\ testRequest.client = "user"
    /\ presented.cohort = "cloud"
    /\ testRequest.cohort = "cloud"
    /\ bank # CHALLENGE_QUESTIONS
    /\ testResult.result = <<2, 2>>

(***************************************************************************)
(* Claims about the shuffle of one build.                                  *)
(***************************************************************************)

\* The orders in which the elements of a list can be written down, each once.
Orderings(list) ==
    LET elems == {list[n] : n \in 1..Len(list)}
    IN  {o \in [1..Len(list) -> elems] : \A a, b \in 1..Len(list) : o[a] = o[b] => a = b}

\* The cohorts whose option lists the state is checked for: all at startup, later the
\* cohort built last (the only one whose lists the last build can have reordered).
ShuffleCohorts == IF session = NoSession THEN DOMAIN bank ELSE {session.cohort} \cap DOMAIN bank

\* The forms one build for the cohort can produce from the bank as it is (the values
\* Construct can give session).
PossibleForms(cohort) ==
    {FormInstance(cohort, shuffled) : shuffled \in ShuffledQuestions(Questions(bank, cohort))}

AdminViewStep == authResponse'.view \in {"manage_users", "edit_user", "delete_user", "manage_cohorts"}

\* C19: only superusers can use the admin views: a request to manage_users, edit_user,
\* delete_user or manage_cohorts by somebody who is not logged in or is no superuser
\* changes no user account and no cohort-visibility record, and is sent to the login page.
C19_AdminViewsNeedSuperuser ==
    [][(AdminViewStep /\ ~Requester.is_superuser) =>
          /\ users' = users
          /\ cohortVisibility' = cohortVisibility
          /\ authResponse'.status = 302
          /\ authResponse'.redirect = "LOGIN_URL"]_vars

\* A logged-in user without admin rights asked to delete an account while a superuser
\* account exists, and was sent to the login page.
C19_Witness ==
    /\ authResponse = Redirected("delete_user", "LOGIN_URL")
    /\ Requester.id # 0
    /\ ~Requester.is_superuser
    /\ \E u \in users : u.is_superuser

\* No two rows of core_customuser have the same email or the same id.
UniqueEmails == \A u, v \in users : (u.email = v.email \/ u.id = v.id) => u = v

\* The address is registered: some account has it, as typed or as create_user would store it.
Registered(email) == \E u \in users : u.email = email \/ u.email = NormalizeEmail(email)

\* C20: after any sequence of requests no two accounts have the same email, and a
\* registration whose email is already registered is rejected with an error, creates
\* no account and logs nobody in.
C20_RegisteredEmailRejected ==
    /\ []UniqueEmails
    /\ [][\A data \in AccountData :
             (authResponse'.view = "register" /\ Registered(data.email) /\ RegisterView("POST", data)) =>
                /\ users' = users
                /\ nextId' = nextId
                /\ sessionUser' = sessionUser
                /\ authResponse'.status # 302
                /\ authResponse'.error # ""]_vars

\* A registration with the other spelling of a registered address was rejected, by a
\* browser that is not logged in.
C20_Witness ==
    /\ authResponse.view = "register"
    /\ authResponse.error # ""
    /\ authResponse.form_error = "User with this Email already exists."
    /\ sessionUser = 0
    /\ \E u \in users : u.email = "vet@example.com"
    /\ Cardinality(users) = 1

\* The spellings of the admin address among the submitted ones: equal to it when case is ignored.
AdminSpellings == {"adminemail@gmail.com", "AdminEmail@gmail.com"}

\* C21: register_view gives the account it creates is_staff and is_superuser exactly
\* when the submitted email equals adminemail@gmail.com with case ignored; any other
\* successful registration creates an account without admin rights; either way exactly
\* one account is added, the new user is logged in and sent to register_success.
C21_AdminOnlyForAdminEmail ==
    [][\A data \in AccountData :
          (authResponse'.view = "register" /\ users' # users /\ RegisterView("POST", data)) =>
              /\ Cardinality(users' \ users) = 1
              /\ users \subseteq users'
              /\ \A u \in users' \ users :
                    /\ u.is_superuser <=> (data.email \in AdminSpellings)
                    /\ u.is_staff <=> (data.email \in AdminSpellings)
                    /\ sessionUser' = u.id
              /\ authResponse'.status = 302
              /\ authResponse'.redirect = "register_success"]_vars

\* The admin address typed with capitals was registered after an ordinary account:
\* the new account has admin rights and is logged in, the ordinary one has none.
C21_Witness ==
    /\ authResponse = Redirected("register", "register_success")
    /\ \E u \in users : u.email = "AdminEmail@gmail.com" /\ u.is_superuser /\ u.is_staff /\ u.id = sessionUser
    /\ \E u \in users : u.email = "vet@example.com" /\ ~u.is_superuser /\ ~u.is_staff

(***************************************************************************)
(* Claims about manage_cohorts.                                            *)
(***************************************************************************)

\* The enabled flag a cohort has when the toggle reads it: the stored one, or TRUE
\* for a cohort the same request has just created.
EnabledBefore(id) ==
    IF \E r \in cohortVisibility : r.id = id
    THEN (CHOOSE r \in cohortVisibility : r.id = id).enabled
    ELSE TRUE

\* The step is an admin's request answered by manage_cohorts.
AdminCohortStep == authResponse'.view = "manage_cohorts" /\ Requester.is_superuser

\* C22: an admin POST to manage_cohorts with the id of a cohort inverts that cohort's
\* enabled flag and leaves the flag of every other cohort as it was (so a second
\* toggle of the same cohort, which again inverts, restores the value); a GET or a
\* POST with an unknown cohort_id toggles nothing.
C22_ToggleInvertsOneFlag ==
    [][\A method \in {"GET", "POST"}, cohort_id \in CohortIds :
          (AdminCohortStep /\ ManageCohorts(method, cohort_id)) =>
              \A r \in cohortVisibility' :
                  r.enabled = IF method = "POST" /\ r.id = cohort_id
                              THEN ~EnabledBefore(r.id)
                              ELSE EnabledBefore(r.id)]_vars

\* A cohort has been toggled off and on again next to one that is off: the table shows
\* the second and third cohort enabled after a toggle, the first disabled.
C22_Witness ==
    /\ authResponse = Redirected("manage_cohorts", "manage_cohorts")
    /\ \E r \in cohortVisibility : r.id = 1 /\ ~r.enabled
    /\ \E r \in cohortVisibility : r.id = 2 /\ r.enabled
    /\ \E r \in cohortVisibility : r.id = 3 /\ r.enabled

\* The names of the rows of the table, with their multiplicity.
RowsNamed(rows, name) == {r \in rows : r.name = name}

\* C23: after any admin request to manage_cohorts (GET, POST, POST with an unknown
\* cohort_id) the table has exactly one record for each of the three default names
\* and no other; no request creates a duplicate, a record that existed keeps its id
\* and, unless it is the one toggled, its enabled flag, and a created record is enabled.
C23_ExactlyTheDefaultCohorts ==
    [][\A method \in {"GET", "POST"}, cohort_id \in CohortIds :
          (AdminCohortStep /\ ManageCohorts(method, cohort_id)) =>
              /\ \A k \in 1..Len(DEFAULT_COHORTS) :
                    Cardinality(RowsNamed(cohortVisibility', DEFAULT_COHORTS[k])) = 1
              /\ Cardinality(cohortVisibility') = Len(DEFAULT_COHORTS)
              /\ \A r \in cohortVisibility :
                    \E n \in cohortVisibility' :
                        /\ n.id = r.id
                        /\ n.name = r.name
                        /\ (n.enabled = r.enabled \/ (method = "POST" /\ r.id = cohort_id))
              /\ \A n \in cohortVisibility' :
                    (\A r \in cohortVisibility : r.id # n.id) =>
                        (n.enabled \/ (method = "POST" /\ n.id = cohort_id))]_vars

\* The admin looked at the page again after disabling a cohort: three records, one disabled.
C23_Witness ==
    /\ authResponse = Rendered("manage_cohorts", "", "")
    /\ Cardinality(cohortVisibility) = 3
    /\ \E r \in cohortVisibility : r.name = "Cybersecurity Administration" /\ ~r.enabled

(***************************************************************************)
(* Claims about logging in, the home pages and passwords.                  *)
(***************************************************************************)

\* The home page of the three student types that have one.
HomeOfType == [Current |-> "current_student_home", Future |-> "future_student_home", Alumni |-> "alumni_home"]

\* The account with the id.
UserWithId(id) == CHOOSE u \in users : u.id = id

\* C24: logged-in users are sent to the home page of their student type and redirects
\* end: login_view and home both send Current, Future and Alumni to their page, which
\* is rendered for them; login_view sends any other type to home, which renders the
\* public page for it without redirecting; and whenever the browser holds a redirect,
\* following redirects reaches a rendered page.
C24_RedirectsReachHomePage ==
    /\ [][/\ (authResponse'.view = "login" /\ authResponse'.status = 302) =>
                /\ sessionUser' # 0
                /\ LET type == UserWithId(sessionUser').student_type
                   IN  authResponse'.redirect =
                           IF type \in DOMAIN HomeOfType THEN HomeOfType[type] ELSE "home"
          /\ (authResponse'.view = "home" /\ Requester.id # 0) =>
                IF Requester.student_type \in DOMAIN HomeOfType
                THEN authResponse' = Redirected("home", HomeOfType[Requester.student_type])
                ELSE authResponse' = Rendered("home", "", "")
          /\ (Redirecting /\ authResponse.view \in {"login", "home"} /\ Requester.id # 0) =>
                authResponse' = IF authResponse.redirect = "home" /\ Requester.student_type \in DOMAIN HomeOfType
                                THEN Redirected("home", HomeOfType[Requester.student_type])
                                ELSE Rendered(authResponse.redirect, "", "")]_vars
    /\ (Redirecting ~> authResponse.status = 200)

\* The user without a student type has logged in and is on the public page.
C24_Witness ==
    /\ authResponse = Rendered("home", "", "")
    /\ sessionUser # 0
    /\ UserWithId(sessionUser).student_type = "None"

\* The password of the account with the id, in the given table.
PasswordOf(rows, id) == (CHOOSE u \in rows : u.id = id).password

\* C25 as stated: reset_password changes the password of the user named by user_id
\* only on a POST whose form is valid, and then to the password as submitted; a GET,
\* an invalid POST or an unknown user_id changes no password, and no request changes
\* the password of another user.
C25_SetToSubmittedPassword ==
    [][/\ \A user_id \in ResetIds :
             (authResponse'.view = "reset_password" /\ ResetPassword(user_id, "GET", NoResetData)) =>
                \A u \in users : PasswordOf(users', u.id) = u.password
       /\ \A user_id \in ResetIds, data \in ResetData :
             (authResponse'.view = "reset_password" /\ ResetPassword(user_id, "POST", data)) =>
                \A u \in users :
                    PasswordOf(users', u.id) =
                        IF u.id = user_id /\ ResetPasswordFormValid(data)
                        THEN data.password
                        ELSE u.password]_vars

\* C25, amended: reset_password changes the password of the user named by user_id only
\* on a POST whose form is valid (both fields non-blank once stripped), and then to the
\* submitted password with its leading and trailing blanks removed; a GET, an invalid
\* POST or an unknown user_id changes no password, no request changes the password of
\* another user, and no other view changes any password.
C25_ResetChangesOnlyNamedUser ==
    [][/\ {u.id : u \in users'} = {u.id : u \in users}
       /\ authResponse'.view # "reset_password" =>
             \A u \in users : PasswordOf(users', u.id) = u.password
       /\ \A user_id \in ResetIds :
             (authResponse'.view = "reset_password" /\ ResetPassword(user_id, "GET", NoResetData)) =>
                \A u \in users : PasswordOf(users', u.id) = u.password
       /\ \A user_id \in ResetIds, data \in ResetData :
             (authResponse'.view = "reset_password" /\ ResetPassword(user_id, "POST", data)) =>
                \A u \in users :
                    PasswordOf(users', u.id) =
                        IF /\ u.id = user_id
                           /\ Strip(data.password) # ""
                           /\ Strip(data.confirm_password) # ""
                        THEN Strip(data.password)
                        ELSE u.password]_vars

\* The first account's password has been reset to another one; the others are as they were.
C25_Witness ==
    /\ authResponse.view = "reset_password"
    /\ PasswordOf(users, 1) = "pw2"
    /\ \A u \in users : u.id # 1 => u.password = "pw1"

\* The messages that may be sent for a submitted address: the reset mail of the
\* account that has it, addressed to that account.
MailsFor(email) == {[to |-> u.email, subject |-> "Reset Password", reset_link |-> u.id] :
                       u \in {v \in users : v.email = email}}

====
